---- MODULE Spec2Model ----
(***************************************************************************)
(* Model of the two decision endpoints of src/main.py: the quiz-based      *)
(* recommender (recommend) and the keyword chatbot (chatbot), over the     *)
(* module-level catalog SERVICE_LIBRARY.                                   *)
(*                                                                         *)
(* Python strings are TLA+ strings; Python lists are sequences, so the     *)
(* 0-based SERVICE_LIBRARY[k] of the source is lib[k + 1] here.  The       *)
(* non-ASCII characters of the literal texts are written in ASCII          *)
(* (the euro sign as EUR, the typographic apostrophe as ').                *)
(***************************************************************************)
EXTENDS Integers, Sequences, FiniteSets, TLC

VARIABLES
  SERVICE_LIBRARY,   \* the module-level catalog
  endpoint,          \* the handler whose response is pending, or "idle"
  payload,           \* recommend's QuizInput
  msg,               \* chatbot's ChatbotMessage
  recommendations,   \* recommend's return value
  chatReply,         \* chatbot's return value
  served             \* history: the number of requests answered so far

vars ==
  <<SERVICE_LIBRARY, endpoint, payload, msg, recommendations, chatReply, served>>

(***************************************************************************)
(* Bounds and input domains.                                               *)
(***************************************************************************)
\* A chat message is the concatenation of at most MaxFragments fragments.
MaxFragments == 2

\* The number of requests a run serves.
MaxRequests == 2

Industries ==
  { "ecommerce", "e-commerce", "finance", "fintech", "financial",
    "E-Commerce", "FinTech", "none", "saas", "support", "" }

Sizes ==
  { "enterprise", "midmarket", "Enterprise", "MIDMARKET",
    "startup", "smb", "none", "" }

Goals ==
  { "support", "customer support", "cs", "Support", "CS", "Customer Support",
    "lead-gen", "marketing", "growth", "revenue", "Marketing",
    "analytics", "insights", "reporting", "Analytics",
    "operations", "efficiency", "process", "Operations",
    "none", "unknown", "supports", "customer  support", " cs", "" }

Fragments ==
  { "Wat kost een implementatie?", "I need an ML model for support",
    "Wat kost een pilot?", "kost", "en", "Prijs", "hoe", " werkt", "stappen",
    "Helpdesk", "lead", "Growth", "AI", "email", " ", "\t", "\n" }

(***************************************************************************)
(* str.lower(), on the ASCII letters.                                      *)
(***************************************************************************)
lowerChar(c) ==
  CASE c = "A" -> "a" [] c = "B" -> "b" [] c = "C" -> "c" [] c = "D" -> "d"
    [] c = "E" -> "e" [] c = "F" -> "f" [] c = "G" -> "g" [] c = "H" -> "h"
    [] c = "I" -> "i" [] c = "J" -> "j" [] c = "K" -> "k" [] c = "L" -> "l"
    [] c = "M" -> "m" [] c = "N" -> "n" [] c = "O" -> "o" [] c = "P" -> "p"
    [] c = "Q" -> "q" [] c = "R" -> "r" [] c = "S" -> "s" [] c = "T" -> "t"
    [] c = "U" -> "u" [] c = "V" -> "v" [] c = "W" -> "w" [] c = "X" -> "x"
    [] c = "Y" -> "y" [] c = "Z" -> "z" [] OTHER -> c

RECURSIVE lowerFrom(_, _)
lowerFrom(s, i) ==
  IF i > Len(s) THEN ""
  ELSE lowerChar(SubSeq(s, i, i)) \o lowerFrom(s, i + 1)

\* A plausible slip: the input is matched as given, without lower-casing.
lower_asGiven(s) == s

lower(s) == lowerFrom(s, 1)

(***************************************************************************)
(* The catalog.                                                            *)
(***************************************************************************)
Recommendation(t, d, i, p) ==
  [title |-> t, description |-> d, icon |-> i, priority |-> p]

CATALOG ==
  << Recommendation("AI-driven Customer Service",
        "Virtuele agents, intent-herkenning en self-service flows.",
        "Headset", 1),
     Recommendation("Marketing Automation",
        "Personalisatie, lead scoring en lifecycle journeys.",
        "Sparkles", 2),
     Recommendation("ML Applications",
        "Voorspellende modellen, aanbevelers en detectie.",
        "BrainCircuit", 2),
     Recommendation("RPA & Integrations",
        "Robotica voor repetitieve taken en systeemkoppelingen.",
        "Workflow", 3),
     Recommendation("Analytics & Dashboards",
        "Realtime KPI's met datamodellering en visualisatie.",
        "BarChart3", 3) >>

(***************************************************************************)
(* recommend: the keyword lists of the seven rules.                        *)
(***************************************************************************)
GOAL_SUPPORT    == { "support", "customer support", "cs" }
GOAL_MARKETING  == { "lead-gen", "marketing", "growth", "revenue" }
GOAL_ANALYTICS  == { "analytics", "insights", "reporting" }
GOAL_OPERATIONS == { "operations", "efficiency", "process" }
INDUSTRY_ECOM   == { "ecommerce", "e-commerce" }
INDUSTRY_FIN    == { "finance", "fintech", "financial" }
SIZE_LARGE      == { "enterprise", "midmarket" }

\* results.append(x) under a condition.
appendIf(cond, results, x) == IF cond THEN Append(results, x) ELSE results

\* A plausible slip: the analytics and operations rules take each other's
\* catalog index (the source indexes them out of catalog order, 4 then 3).
matched_swappedIndex(lib, industry, size, goal) ==
  LET r0 == << >>
      r1 == appendIf(goal \in GOAL_SUPPORT, r0, lib[1])
      r2 == appendIf(goal \in GOAL_MARKETING, r1, lib[2])
      r3 == appendIf(goal \in GOAL_ANALYTICS, r2, lib[4])
      r4 == appendIf(goal \in GOAL_OPERATIONS, r3, lib[5])
      r5 == appendIf(industry \in INDUSTRY_ECOM, r4, lib[3])
      r6 == appendIf(industry \in INDUSTRY_FIN, r5, lib[3])
      r7 == appendIf(size \in SIZE_LARGE, r6, lib[4])
  IN  r7

\* The working list after the seven rules, from an empty list.
matched(lib, industry, size, goal) ==
  LET r0 == << >>
      r1 == appendIf(goal \in GOAL_SUPPORT, r0, lib[1])
      r2 == appendIf(goal \in GOAL_MARKETING, r1, lib[2])
      r3 == appendIf(goal \in GOAL_ANALYTICS, r2, lib[5])
      r4 == appendIf(goal \in GOAL_OPERATIONS, r3, lib[4])
      r5 == appendIf(industry \in INDUSTRY_ECOM, r4, lib[3])
      r6 == appendIf(industry \in INDUSTRY_FIN, r5, lib[3])
      r7 == appendIf(size \in SIZE_LARGE, r6, lib[4])
  IN  r7

\* A plausible slip: the fallback is left out.
fallback_missing(lib, results) == results

\* if not results: results = [LIB[2], LIB[0], LIB[4]]
fallback(lib, results) ==
  IF results = << >> THEN << lib[3], lib[1], lib[5] >> ELSE results

Front(s) == SubSeq(s, 1, Len(s) - 1)
Last(s)  == s[Len(s)]

RECURSIVE dictValues(_)
dictValues(results) ==
  IF results = << >> THEN << >>
  ELSE LET d == dictValues(Front(results))
           r == Last(results)
       IN  IF \E i \in 1..Len(d) : d[i].title = r.title
           THEN [i \in 1..Len(d) |-> IF d[i].title = r.title THEN r ELSE d[i]]
           ELSE Append(d, r)

\* A plausible slip: no deduplication, every appended item is kept.
dedup_keepAll(results) == results

\* {rec.title: rec for rec in results}.values(): a key keeps the position of
\* its first insertion and the value of its last.
dedup(results) == dictValues(results)

\* x placed behind every element of the sorted s whose key is not greater:
\* equal keys stay in the order of the input.
insertStable(s, x) ==
  LET k == Cardinality({i \in 1..Len(s) : s[i].priority <= x.priority})
  IN  SubSeq(s, 1, k) \o << x >> \o SubSeq(s, k + 1, Len(s))

RECURSIVE sortedFrom(_)
sortedFrom(s) ==
  IF s = << >> THEN << >> ELSE insertStable(sortedFrom(Front(s)), Last(s))

\* A plausible slip: the values are returned as collected, unsorted.
sorted_missing(s) == s

\* A plausible slip: ties are ordered by the item's place in the catalog
\* instead of being left in the order of the input.
sorted_tiesByCatalog(s) ==
  LET place(r) == CHOOSE i \in 1..Len(CATALOG) : CATALOG[i].title = r.title
      before(a, b) == \/ a.priority < b.priority
                      \/ a.priority = b.priority /\ place(a) < place(b)
  IN  [i \in 1..Len(s) |->
         CHOOSE r \in {s[j] : j \in 1..Len(s)} :
           Cardinality({q \in {s[j] : j \in 1..Len(s)} : before(q, r)}) = i - 1]

\* sorted(values, key=lambda r: r.priority): stable, ascending.
sorted(s) == sortedFrom(s)

\* The call's return value and the catalog as the call leaves it.  A
\* plausible slip: the working list is the catalog itself (results =
\* SERVICE_LIBRARY) instead of a fresh list, so each append lands in it.
recommend_aliased(lib, p) ==
  LET industry == lower(p.industry)
      size     == lower(p.company_size)
      goal     == lower(p.primary_goal)
      results  == lib \o matched(lib, industry, size, goal)
  IN  [ ret |-> sorted(dedup(results)), SERVICE_LIBRARY |-> results ]

\* recommend(payload): the return value, and the catalog after the call
\* (the function binds and appends to a list of its own and writes nothing
\* to the module-level catalog).
recommend(lib, p) ==
  LET industry == lower(p.industry)
      size     == lower(p.company_size)
      goal     == lower(p.primary_goal)
      results  == fallback(lib, matched(lib, industry, size, goal))
  IN  [ ret |-> sorted(dedup(results)), SERVICE_LIBRARY |-> lib ]

(***************************************************************************)
(* chatbot.                                                                *)
(***************************************************************************)
\* k in text: k occurs in text as a contiguous substring.
in(k, text) ==
  \E i \in 1..(Len(text) - Len(k) + 1) : SubSeq(text, i, i + Len(k) - 1) = k

\* any(k in text for k in keywords)
any(keywords, text) == \E k \in keywords : in(k, text)

PRICING_KEYWORDS   == { "prijs", "kosten", "tarief", "offerte", "pricing", "price" }
PROCESS_KEYWORDS   == { "implement", "implementatie", "hoe werkt", "proces", "stappen" }
SUPPORT_KEYWORDS   == { "support", "klantenservice", "customer service", "helpdesk" }
MARKETING_KEYWORDS == { "marketing", "lead", "campagne", "growth" }
ML_KEYWORDS        == { "ml", "machine learning", "model", "ai" }

\* The inner reply(content, intent, suggestions): suggestions or [].
reply(content, intent, suggestions) ==
  [ reply |-> content, intent |-> intent,
    suggestions |-> IF Len(suggestions) = 0 THEN << >> ELSE suggestions ]

pricingReply ==
  reply("Onze trajecten starten doorgaans vanaf EUR8.000 voor een pilot. Voor langdurige implementaties werken we met vaste sprints of een retainer. Zal ik een korte intake van 15 min inplannen?",
        "pricing",
        << "Plan een intake", "Stuur prijslijst", "Meer over pakketten" >>)

processReply ==
  reply("We starten met een AI Discovery (1-2 weken), vervolgens een pilot (4-6 weken) en daarna schaalvergroting. Alles is meetbaar met KPI's en dashboards.",
        "process",
        << "Start Discovery", "Bekijk voorbeelden", "Meetbare KPI's" >>)

supportReply ==
  reply("Voor support automatisering combineren we NLP met workflow-automatisering (RPA). Gemiddeld reduceren we responstijden met 50-70%.",
        "service-support",
        << "Plan demo virtuele agent", "Zie case retail", "Integraties" >>)

marketingReply ==
  reply("We bouwen scoring-modellen, personalisatie en journey-automatisering. Dit leidt vaak tot +10-25% conversie uplift.",
        "service-marketing",
        << "Plan marketing audit", "Voorbeeldflows", "CDP integratie" >>)

mlReply ==
  reply("We ontwikkelen productierijpe ML met MLOps best practices: monitoring, retraining en CI/CD voor modellen.",
        "service-ml",
        << "Architectuur voorbeelden", "Security & compliance", "Roadmap sessie" >>)

DEFAULT_TEXT ==
  "Hi! Ik ben je AI-assistent. Stel me een vraag over onze diensten, implementatie of prijzen, of vraag om een intake."

\* A plausible slip: the default is returned with reply's own defaults
\* (intent "general", suggestions None).
defaultReply_bare == reply(DEFAULT_TEXT, "general", << >>)

defaultReply ==
  reply(DEFAULT_TEXT, "general",
        << "Wat kost een pilot?", "Hoe ziet het proces eruit?",
           "Welke cases hebben jullie?" >>)

\* text = (msg.message or "").lower()
messageText(m) == lower(IF m.message = "" THEN "" ELSE m.message)

\* A plausible slip: the service-ml test is placed before the
\* service-support and service-marketing tests.
chatbot_mlEarly(m) ==
  LET text == messageText(m)
  IN  IF any(PRICING_KEYWORDS, text) THEN pricingReply
      ELSE IF any(PROCESS_KEYWORDS, text) THEN processReply
      ELSE IF any(ML_KEYWORDS, text) THEN mlReply
      ELSE IF any(SUPPORT_KEYWORDS, text) THEN supportReply
      ELSE IF any(MARKETING_KEYWORDS, text) THEN marketingReply
      ELSE defaultReply

chatbot(m) ==
  LET text == messageText(m)
  IN  IF any(PRICING_KEYWORDS, text) THEN pricingReply
      ELSE IF any(PROCESS_KEYWORDS, text) THEN processReply
      ELSE IF any(SUPPORT_KEYWORDS, text) THEN supportReply
      ELSE IF any(MARKETING_KEYWORDS, text) THEN marketingReply
      ELSE IF any(ML_KEYWORDS, text) THEN mlReply
      ELSE defaultReply

(***************************************************************************)
(* The requests.                                                           *)
(***************************************************************************)
QuizInput(i, s, g) == [industry |-> i, company_size |-> s, primary_goal |-> g]

ChatbotMessage(t) == [message |-> t]

QuizInputs == {QuizInput(i, s, g) : i \in Industries, s \in Sizes, g \in Goals}

RECURSIVE Texts(_)
Texts(n) ==
  IF n = 0 THEN {""} ELSE Texts(n - 1) \cup {t \o f : t \in Texts(n - 1), f \in Fragments}

Messages == {ChatbotMessage(t) : t \in Texts(MaxFragments)}

NoPayload == QuizInput("", "", "")
NoMessage == ChatbotMessage("")
NoReply   == [reply |-> "", intent |-> "", suggestions |-> << >>]

Init ==
  /\ SERVICE_LIBRARY = CATALOG
  /\ endpoint = "idle"
  /\ payload = NoPayload
  /\ msg = NoMessage
  /\ recommendations = << >>
  /\ chatReply = NoReply
  /\ served = 0

\* POST /api/recommend: the handler runs on a validated QuizInput and its
\* return value becomes the response.
Recommend ==
  /\ endpoint = "idle"
  /\ served < MaxRequests
  /\ \E p \in QuizInputs :
       LET call == recommend(SERVICE_LIBRARY, p)
       IN  /\ endpoint' = "recommend"
           /\ payload' = p
           /\ recommendations' = call.ret
           /\ SERVICE_LIBRARY' = call.SERVICE_LIBRARY
           /\ UNCHANGED <<msg, chatReply, served>>

\* POST /api/chatbot
Chatbot ==
  /\ endpoint = "idle"
  /\ served < MaxRequests
  /\ \E m \in Messages :
       /\ endpoint' = "chatbot"
       /\ msg' = m
       /\ chatReply' = chatbot(m)
       /\ UNCHANGED <<SERVICE_LIBRARY, payload, recommendations, served>>

\* The response is sent: the request's values are dropped, the module-level
\* catalog stays as the handler left it.
Respond ==
  /\ endpoint # "idle"
  /\ endpoint' = "idle"
  /\ payload' = NoPayload
  /\ msg' = NoMessage
  /\ recommendations' = << >>
  /\ chatReply' = NoReply
  /\ served' = served + 1
  /\ UNCHANGED SERVICE_LIBRARY

Next == Recommend \/ Chatbot \/ Respond

Spec == Init /\ [][Next]_vars

(***************************************************************************)
(* Vocabulary of the properties, stated without the handlers' operators.   *)
(***************************************************************************)
UpperCase == "ABCDEFGHIJKLMNOPQRSTUVWXYZ"
LowerCase == "abcdefghijklmnopqrstuvwxyz"

charAt(s, i) == SubSeq(s, i, i)

\* The lower-case letter of an upper-case one.
CaseFold ==
  [c \in {charAt(UpperCase, i) : i \in 1..Len(UpperCase)} |->
     charAt(LowerCase, CHOOSE i \in 1..Len(UpperCase) : charAt(UpperCase, i) = c)]

Fold(c) == IF c \in DOMAIN CaseFold THEN CaseFold[c] ELSE c

EqIgnoreCase(a, b) ==
  /\ Len(a) = Len(b)
  /\ \A i \in 1..Len(a) : Fold(charAt(a, i)) = Fold(charAt(b, i))

IsOneOf(s, keys) == \E k \in keys : EqIgnoreCase(s, k)

\* k occurs in text, the case of the text ignored (keywords are lower-case).
Occurs(k, text) ==
  \E i \in 1..(Len(text) - Len(k) + 1) :
    EqIgnoreCase(SubSeq(text, i, i + Len(k) - 1), k)

IsBlank(text) ==
  \A i \in 1..Len(text) : charAt(text, i) \in {" ", "\t", "\n"}

Titles(recs) == [i \in 1..Len(recs) |-> recs[i].title]

TitleSet(recs) == {recs[i].title : i \in 1..Len(recs)}

CS_TITLE        == "AI-driven Customer Service"
MARKETING_TITLE == "Marketing Automation"
ML_TITLE        == "ML Applications"
RPA_TITLE       == "RPA & Integrations"
ANALYTICS_TITLE == "Analytics & Dashboards"

\* The matching table, in the order the rules are evaluated.
Rule(f, k, t) == [field |-> f, keys |-> k, title |-> t]

RuleTable ==
  << Rule("primary_goal", {"support", "customer support", "cs"}, CS_TITLE),
     Rule("primary_goal", {"lead-gen", "marketing", "growth", "revenue"}, MARKETING_TITLE),
     Rule("primary_goal", {"analytics", "insights", "reporting"}, ANALYTICS_TITLE),
     Rule("primary_goal", {"operations", "efficiency", "process"}, RPA_TITLE),
     Rule("industry", {"ecommerce", "e-commerce"}, ML_TITLE),
     Rule("industry", {"finance", "fintech", "financial"}, ML_TITLE),
     Rule("company_size", {"enterprise", "midmarket"}, RPA_TITLE) >>

Fired(p) ==
  {i \in 1..Len(RuleTable) : IsOneOf(p[RuleTable[i].field], RuleTable[i].keys)}

FiredTitles(p) == {RuleTable[i].title : i \in Fired(p)}

\* The first fired rule that appends title t.
FirstFired(p, t) ==
  CHOOSE i \in Fired(p) :
    /\ RuleTable[i].title = t
    /\ \A j \in Fired(p) : RuleTable[j].title = t => i <= j

\* The chatbot's buckets in their fixed order.
Bucket(i, k) == [intent |-> i, keywords |-> k]

Buckets ==
  << Bucket("pricing", PRICING_KEYWORDS),
     Bucket("process", PROCESS_KEYWORDS),
     Bucket("service-support", SUPPORT_KEYWORDS),
     Bucket("service-marketing", MARKETING_KEYWORDS),
     Bucket("service-ml", ML_KEYWORDS) >>

Hits(text) ==
  {i \in 1..Len(Buckets) : \E k \in Buckets[i].keywords : Occurs(k, text)}

FirstBucketIntent(text) ==
  LET hits == Hits(text)
  IN  IF hits = {} THEN "general"
      ELSE Buckets[CHOOSE i \in hits : \A j \in hits : i <= j].intent

(***************************************************************************)
(* The properties.                                                         *)
(***************************************************************************)

\* C1: for every QuizInput, recommend returns a list of at least 1 and at
\* most 5 items; it is never empty.
RecommendNonEmptyAtMostFive ==
  endpoint = "recommend" =>
    /\ Len(recommendations) >= 1
    /\ Len(recommendations) <= 5

\* C1 witness: a request for which no rule fires has been answered with the
\* three fallback items.
FallbackAnswered ==
  /\ endpoint = "recommend"
  /\ Fired(payload) = {}
  /\ Len(recommendations) = 3

\* C2: the list returned by recommend has no two items with the same title
\* and is in non-decreasing order of priority.
UniqueTitlesSortedByPriority ==
  endpoint = "recommend" =>
    \A i, j \in 1..Len(recommendations) :
      i < j =>
        /\ recommendations[i].title # recommendations[j].title
        /\ recommendations[i].priority <= recommendations[j].priority

\* C2 witness: two rules (goal operations, size enterprise) appended the same
\* item, a third a lower-numbered one, and the answer holds each once.
DuplicateAppendAnswered ==
  /\ endpoint = "recommend"
  /\ payload = QuizInput("fintech", "enterprise", "operations")
  /\ Titles(recommendations) = << ML_TITLE, RPA_TITLE >>

\* C3 as stated: when no rule fires, recommend returns the sequence
\* ML Applications, AI-driven Customer Service, Analytics & Dashboards.
FallbackInListedOrder ==
  (endpoint = "recommend" /\ Fired(payload) = {}) =>
    Titles(recommendations) = << ML_TITLE, CS_TITLE, ANALYTICS_TITLE >>

\* C3 amended: when no rule fires, recommend returns the fallback trio in
\* ascending priority: AI-driven Customer Service (1), ML Applications (2),
\* Analytics & Dashboards (3).
FallbackInPriorityOrder ==
  (endpoint = "recommend" /\ Fired(payload) = {}) =>
    /\ Titles(recommendations) = << CS_TITLE, ML_TITLE, ANALYTICS_TITLE >>
    /\ [i \in 1..Len(recommendations) |-> recommendations[i].priority] = << 1, 2, 3 >>

\* C3 witness: the all-"none" quiz has been answered with three items.
AllNoneAnswered ==
  /\ endpoint = "recommend"
  /\ payload = QuizInput("none", "none", "none")
  /\ Len(recommendations) = 3

\* C4: chatbot returns the intent of the first bucket, in the order pricing,
\* process, service-support, service-marketing, service-ml, one of whose
\* keywords occurs in the lower-cased text, and "general" exactly when no
\* keyword of any bucket occurs; a text with keywords of several buckets
\* gets the earlier bucket's intent.
FirstMatchingBucketWins ==
  endpoint = "chatbot" =>
    /\ chatReply.intent = FirstBucketIntent(msg.message)
    /\ chatReply.intent = "general" <=>
         \A i \in 1..Len(Buckets) : \A k \in Buckets[i].keywords :
           ~Occurs(k, msg.message)
    /\ msg.message = "I need an ML model for support" =>
         chatReply.intent = "service-support"

\* C4 witness: a text with keywords of buckets 3 and 5 has been answered
\* with bucket 3's intent.
SupportBeforeMlAnswered ==
  /\ endpoint = "chatbot"
  /\ msg.message = "I need an ML model for support"
  /\ Hits(msg.message) = {3, 5}
  /\ chatReply.intent = "service-support"

\* C5: chatbot called with "Wat kost een implementatie?" returns intent
\* "pricing", not "process".
KostQuestionIsPricing ==
  (endpoint = "chatbot" /\ msg.message = "Wat kost een implementatie?") =>
    chatReply.intent = "pricing"

\* C6: an empty or whitespace-only text gets intent "general", the default
\* reply and exactly 3 suggestions.
BlankIsGeneral ==
  (endpoint = "chatbot" /\ IsBlank(msg.message)) =>
    /\ chatReply.intent = "general"
    /\ chatReply.reply = DEFAULT_TEXT
    /\ Len(chatReply.suggestions) = 3

\* C6 witness: a whitespace-only text of two characters has been answered.
WhitespaceAnswered ==
  /\ endpoint = "chatbot"
  /\ msg.message = " \t"
  /\ chatReply.intent = "general"

\* C7: when primary_goal is, case-insensitively, one of support, customer
\* support, cs, the first item returned is AI-driven Customer Service
\* (priority 1), whatever industry and company_size are.
SupportGoalPutsCustomerServiceFirst ==
  (endpoint = "recommend"
     /\ IsOneOf(payload.primary_goal, {"support", "customer support", "cs"})) =>
    /\ Len(recommendations) >= 1
    /\ recommendations[1].title = CS_TITLE
    /\ recommendations[1].priority = 1

\* C7 witness: a mixed-case support goal with a matching industry and size
\* has been answered, customer service first of three.
MixedCaseSupportAnswered ==
  /\ endpoint = "recommend"
  /\ payload = QuizInput("E-Commerce", "MIDMARKET", "Customer Support")
  /\ Titles(recommendations) = << CS_TITLE, ML_TITLE, RPA_TITLE >>

\* C8: when at least one rule fires, the titles returned are exactly those
\* of the rules that fired; RPA & Integrations is returned only if the goal
\* is in {operations, efficiency, process} or the size in {enterprise,
\* midmarket}; ecommerce / startup / unknown yields ML Applications alone.
ReturnedTitlesAreFiredTitles ==
  endpoint = "recommend" =>
    /\ Fired(payload) # {} => TitleSet(recommendations) = FiredTitles(payload)
    /\ RPA_TITLE \in TitleSet(recommendations) =>
         \/ IsOneOf(payload.primary_goal, {"operations", "efficiency", "process"})
         \/ IsOneOf(payload.company_size, {"enterprise", "midmarket"})
    /\ payload = QuizInput("ecommerce", "startup", "unknown") =>
         Titles(recommendations) = << ML_TITLE >>

\* C8 witness: ecommerce / startup / unknown has been answered with one item.
EcommerceStartupAnswered ==
  /\ endpoint = "recommend"
  /\ payload = QuizInput("ecommerce", "startup", "unknown")
  /\ Fired(payload) = {5}
  /\ Len(recommendations) = 1

TiesInAppendOrder ==
  endpoint = "recommend" =>
    \A i, j \in 1..Len(recommendations) :
      LET a == recommendations[i]
          b == recommendations[j]
      IN  /\ (/\ i < j
              /\ a.priority = b.priority
              /\ {a.title, b.title} \subseteq FiredTitles(payload)) =>
                FirstFired(payload, a.title) < FirstFired(payload, b.title)
          /\ (a.title = MARKETING_TITLE /\ b.title = ML_TITLE) => i < j
          /\ (a.title = ANALYTICS_TITLE /\ b.title = RPA_TITLE) => i < j

\* C10 witness: analytics goal and enterprise size have been answered with
\* Analytics before RPA, the reverse of their catalog order.
AnalyticsBeforeRpaAnswered ==
  /\ endpoint = "recommend"
  /\ payload = QuizInput("none", "enterprise", "analytics")
  /\ Titles(recommendations) = << ANALYTICS_TITLE, RPA_TITLE >>

====
